---- MODULE Spec2Model ----
(***************************************************************************)
(* FeatherSQL backend: the pool manager (src-tauri/src/db/pool_manager.rs) *)
(* and the commands that use it (db/execute.rs, db/connections.rs).        *)
(*                                                                         *)
(* Every command runs as an asynchronous task.  A task is cut into steps   *)
(* at its accesses to shared state: the connection registry file, the      *)
(* RwLock-protected pool map and the database engines.                     *)
(***************************************************************************)
EXTENDS Integers, Sequences, FiniteSets, TLC

\* ------------------------------------------------------------------ bounds
NumTasks == 2
MaxCalls == 3
MaxHandles == 2
MaxVer == 1

Tasks == 1..NumTasks

\* ------------------------------------------------------------- data model
\* Strings are sequences of characters, so that format!() and starts_with()
\* are computed on the characters.
ConnIds == {<<"p">>, <<"q">>}
Edited == {<<"p">>}
NoDb == <<"-", "none">>
DbNames == {<<"a">>}
Databases == DbNames \cup {NoDb}
ConfigDbs == {<<"a">>}
PooledEngines == {"sqlite", "mysql", "postgres"}
Engines == PooledEngines \cup {"mssql"}

NoHandle == [n |-> 0, kind |-> "none", id |-> <<>>, ver |-> 0, db |-> NoDb]
NoSnap == << >>
NoError == [text |-> "none", request |-> 0]
NoResult == [ok |-> FALSE, error |-> NoError, columns |-> << >>, rows |-> << >>]

ReadOps == {"execute_sql", "list_databases", "list_tables", "describe_table"}
EvictOps == {"disconnect_connection", "clear_all"}

VARIABLES
    registry,   \* connections.json: connection id -> Connection (db_type, config)
    pools,      \* PoolManager.pools: cache key -> DatabasePool
    alive,      \* numbers of the cached pools whose engine still answers SELECT 1
    nextH,      \* number of the next pool that a connect() produces
    readers,    \* tasks that hold a read guard of PoolManager.pools
    waitq,      \* tasks waiting for a guard of PoolManager.pools, in FIFO order
    pc,         \* position of each task inside its command
    op,         \* the command a task runs
    cid,        \* its connection_id argument
    dbarg,      \* its database argument (NoDb models None)
    newcfg,     \* update_connection: TRUE when a config is supplied
    snap,       \* the connections the task loaded (and edited) locally
    hnd,        \* the DatabasePool the task holds
    builds,     \* connect() calls made by the task's get_or_create_pool
    clients,    \* MSSQL clients opened by the task's command
    hc,         \* outcome of the lookup and health check of the task's call
    evicted,    \* remove_pool / clear_all of the task's command has completed
    removed,    \* number of entries that it took out of the map
    saved,      \* save_connections of the task's command has completed
    res,        \* what the command that returned last gave to its caller
    calls,      \* commands started so far
    \* -- the statement executors of execute.rs and the database they talk to
    table,      \* number of rows of the table t of the database
    coltype,    \* the Rust types under which a cell of its column c decodes
    db_type,    \* engine of the executor that runs ("none" when none runs)
    sql,        \* its sql argument, a sequence of tokens
    xpc,        \* its position
    rows,       \* the rows its first attempt fetched
    columns,    \* the column names it resolved
    sent,       \* the requests it has sent to the engine, in order
    changes,    \* the rows changed by each request that changed the table
    result,     \* the Result<QueryResult, String> it returned
    \* -- execute_sql and the history file (execute.rs, history.rs)
    history,    \* sql_history.json: the entries, newest first
    max_history_count, \* settings.json: max_history_count
    hpc,        \* position of each execute_sql call
    hid,        \* the number of the call (stands for the uuid of its entry)
    hconn,      \* its connection_id argument
    hres,       \* the result of its SQL execution
    hargs,      \* the add_sql_history calls it made, as their arguments
    hcopy,      \* the history its add_sql_history loaded and edited
    hlog,       \* what its add_sql_history returned: "none", "ok" or "err"
    hret,       \* what the call returned to its caller
    logok,      \* the calls whose add_sql_history returned Ok
    hcalls,     \* execute_sql calls started so far
    \* -- the commands that decode a parameter bag (connections.rs)
    bag,        \* the `config` argument, a JSON object: field -> value
    out,        \* the command that returned last, and what it returned
    ccalls      \* commands run so far

pvars == <<registry, pools, alive, nextH, readers, waitq, pc, op, cid, dbarg,
           newcfg, snap, hnd, builds, clients, hc, evicted, removed, saved,
           res, calls>>

xvars == <<table, coltype, db_type, sql, xpc, rows, columns, sent, changes,
           result>>

hvars == <<history, max_history_count, hpc, hid, hconn, hres, hargs, hcopy,
           hlog, hret, logok, hcalls>>

\* The variables of the parts that the pool manager and the executors leave
\* alone.
cvars == <<bag, out, ccalls>>

ovars == <<hvars, cvars>>

vars == <<pvars, xvars, ovars>>

\* ---------------------------------------------------------------- helpers
StartsWith(s, p) == Len(s) >= Len(p) /\ SubSeq(s, 1, Len(p)) = p

\* pool_manager.rs:31-35  format!("{}:{}", connection.id, db) / format!("{}:", id)
CacheKey(id, database) ==
    IF database # NoDb THEN id \o <<":">> \o database ELSE id \o <<":">>

\* pool_manager.rs:86  database.or(config_db.as_deref()); SQLite has no database
ResolvedDb(cfg, database) ==
    IF cfg.engine = "sqlite" THEN NoDb
    ELSE IF database # NoDb THEN database ELSE cfg.database

\* pool_manager.rs:128-140  SELECT 1 against the pool
check_pool_health(pool) == pool.n \in alive

\* Variant of Retained: only the entry without a database suffix is removed.
Retained_ExactKey(m, id) ==
    [k \in {x \in DOMAIN m : x # id \o <<":">>} |-> m[k]]

\* pool_manager.rs:145  retain(|k, _| !k.starts_with(&format!("{}:", connection_id)))
Retained(m, id) ==
    [k \in {x \in DOMAIN m : ~StartsWith(x, id \o <<":">>)} |-> m[k]]

\* The pools that answer among those the map m still holds.
Answering(a, m) == a \cap {m[k].n : k \in DOMAIN m}

Inserted(m, k, v) == [x \in DOMAIN m \cup {k} |-> IF x = k THEN v ELSE m[x]]

\* No executor runs.
NoExecutor ==
    /\ db_type = "none"
    /\ sql = << >>
    /\ xpc = "idle"
    /\ rows = << >>
    /\ columns = << >>
    /\ sent = << >>
    /\ changes = << >>
    /\ result = NoResult

\* No command uses the pool manager and its map is empty.
NoPoolWork ==
    /\ pools = << >>
    /\ alive = {}
    /\ nextH = 1
    /\ readers = {}
    /\ waitq = << >>
    /\ pc = [t \in Tasks |-> "idle"]
    /\ op = [t \in Tasks |-> "none"]
    /\ cid = [t \in Tasks |-> <<>>]
    /\ dbarg = [t \in Tasks |-> NoDb]
    /\ newcfg = [t \in Tasks |-> FALSE]
    /\ snap = [t \in Tasks |-> NoSnap]
    /\ hnd = [t \in Tasks |-> NoHandle]
    /\ builds = [t \in Tasks |-> 0]
    /\ clients = [t \in Tasks |-> 0]
    /\ hc = [t \in Tasks |-> "none"]
    /\ evicted = [t \in Tasks |-> FALSE]
    /\ removed = [t \in Tasks |-> 0]
    /\ saved = [t \in Tasks |-> FALSE]
    /\ res = "none"
    /\ calls = 0

\* No execute_sql call is followed and the history file is empty.
NoHistory ==
    /\ history = << >>
    /\ max_history_count = 0
    /\ hpc = << >>
    /\ hid = << >>
    /\ hconn = << >>
    /\ hres = << >>
    /\ hargs = << >>
    /\ hcopy = << >>
    /\ hlog = << >>
    /\ hret = << >>
    /\ logok = {}
    /\ hcalls = 0

\* No parameter bag is decoded.
NoDecoding ==
    /\ bag = << >>
    /\ out = << >>
    /\ ccalls = 0

\* The parts outside the pool manager and the executors are at rest.
NoOther == NoHistory /\ NoDecoding

TypeOK ==
    /\ DOMAIN registry \subseteq ConnIds
    /\ \A k \in DOMAIN pools : pools[k].n \in 1..MaxHandles + 1
    /\ nextH \in 1..MaxHandles + 2
    /\ alive \subseteq {pools[k].n : k \in DOMAIN pools}
    /\ readers \subseteq Tasks
    /\ calls \in 0..MaxCalls + 1

Init ==
    /\ \E e \in {"sqlite", "mysql"} :
         registry = [i \in ConnIds |->
                       [engine |-> IF i = <<"p">> THEN e ELSE "mssql",
                        ver |-> 0, database |-> NoDb]]
    /\ pools = << >>
    /\ alive = {}
    /\ nextH = 1
    /\ readers = {}
    /\ waitq = << >>
    /\ pc = [t \in Tasks |-> "idle"]
    /\ op = [t \in Tasks |-> "none"]
    /\ cid = [t \in Tasks |-> <<>>]
    /\ dbarg = [t \in Tasks |-> NoDb]
    /\ newcfg = [t \in Tasks |-> FALSE]
    /\ snap = [t \in Tasks |-> NoSnap]
    /\ hnd = [t \in Tasks |-> NoHandle]
    /\ builds = [t \in Tasks |-> 0]
    /\ clients = [t \in Tasks |-> 0]
    /\ hc = [t \in Tasks |-> "none"]
    /\ evicted = [t \in Tasks |-> FALSE]
    /\ removed = [t \in Tasks |-> 0]
    /\ saved = [t \in Tasks |-> FALSE]
    /\ res = "none"
    /\ calls = 0
    /\ table = 0
    /\ coltype = {}
    /\ NoExecutor
    /\ NoOther

\* A command is started on the first task that runs none.
Begin(t) ==
    /\ pc[t] = "idle"
    /\ \A u \in Tasks : u < t => pc[u] # "idle"
    /\ calls < MaxCalls
    /\ calls' = calls + 1

\* The arguments and the loaded connections of the command, which goes on
\* to position p.
Bind(t, p, o, id, d, w, sn) ==
    /\ pc' = [pc EXCEPT ![t] = p]
    /\ op' = [op EXCEPT ![t] = o]
    /\ cid' = [cid EXCEPT ![t] = id]
    /\ dbarg' = [dbarg EXCEPT ![t] = d]
    /\ newcfg' = [newcfg EXCEPT ![t] = w]
    /\ snap' = [snap EXCEPT ![t] = sn]
    /\ UNCHANGED <<hnd, builds, clients, hc, evicted, removed, saved, res>>
    /\ UNCHANGED <<xvars, ovars>>

\* The command returns r; its arguments and locals (the loaded connections,
\* the pool clone, the client) are dropped.
Finish(t, r) ==
    /\ res' = r
    /\ pc' = [pc EXCEPT ![t] = "idle"]
    /\ op' = [op EXCEPT ![t] = "none"]
    /\ cid' = [cid EXCEPT ![t] = <<>>]
    /\ dbarg' = [dbarg EXCEPT ![t] = NoDb]
    /\ newcfg' = [newcfg EXCEPT ![t] = FALSE]
    /\ snap' = [snap EXCEPT ![t] = NoSnap]
    /\ hnd' = [hnd EXCEPT ![t] = NoHandle]
    /\ builds' = [builds EXCEPT ![t] = 0]
    /\ clients' = [clients EXCEPT ![t] = 0]
    /\ hc' = [hc EXCEPT ![t] = "none"]
    /\ evicted' = [evicted EXCEPT ![t] = FALSE]
    /\ removed' = [removed EXCEPT ![t] = 0]
    /\ saved' = [saved EXCEPT ![t] = FALSE]
    /\ UNCHANGED <<xvars, ovars>>

\* The command goes on to position p.
Goto(t, p) ==
    /\ pc' = [pc EXCEPT ![t] = p]
    /\ UNCHANGED <<op, cid, dbarg, newcfg, snap, res>>
    /\ UNCHANGED <<xvars, ovars>>

\* Variant of StartRead: MSSQL connections are not branched off and take the
\* pooled path like the other engines.
StartRead_NoMssqlBranch(t, o, id, d) ==
    /\ o \in ReadOps
    /\ o = "list_databases" => d = NoDb
    /\ Begin(t)
    /\ IF id \notin DOMAIN registry
         THEN /\ Finish(t, "Connection not found")
              /\ UNCHANGED waitq
         ELSE IF o = "list_databases" /\ registry[id].engine = "sqlite"
         THEN /\ Finish(t, "ok")
              /\ UNCHANGED waitq
         ELSE /\ Bind(t, "rd_wait", "query", id, d, FALSE, (id :> registry[id]))
              /\ waitq' = Append(waitq, t)
    /\ UNCHANGED <<registry, pools, alive, nextH, readers>>

\* ------------------------------------------------- acquiring a pooled handle
\* execute.rs:81-113, connections.rs:646-695, 736-790, 867-983: load the
\* connection, branch on its engine, and ask for the read guard
\* (pool_manager.rs:39).  The four commands differ in the statement they
\* run, not in how they obtain the handle.
StartRead(t, o, id, d) ==
    /\ o \in ReadOps
    /\ o = "list_databases" => d = NoDb
    /\ Begin(t)
    /\ IF id \notin DOMAIN registry
         THEN /\ Finish(t, "Connection not found")
              /\ UNCHANGED waitq
         ELSE IF o = "list_databases" /\ registry[id].engine = "sqlite"
         THEN /\ Finish(t, "ok")
              /\ UNCHANGED waitq
         ELSE IF registry[id].engine = "mssql"
         THEN /\ Bind(t, "mssql_connect", "query", id, d, FALSE, (id :> registry[id]))
              /\ UNCHANGED waitq
         ELSE /\ Bind(t, "rd_wait", "query", id, d, FALSE, (id :> registry[id]))
              /\ waitq' = Append(waitq, t)
    /\ UNCHANGED <<registry, pools, alive, nextH, readers>>

\* Variant of Lookup: the read guard is kept after a miss.
Lookup_NoRelease(t) ==
    /\ pc[t] = "rd_wait"
    /\ waitq # << >> /\ Head(waitq) = t
    /\ waitq' = Tail(waitq)
    /\ readers' = readers \cup {t}
    /\ IF CacheKey(cid[t], dbarg[t]) \in DOMAIN pools
         THEN /\ Goto(t, "check")
              /\ UNCHANGED hc
         ELSE /\ Goto(t, "create")
              /\ hc' = [hc EXCEPT ![t] = "absent"]
    /\ UNCHANGED <<registry, pools, alive, nextH, hnd, builds, clients,
                   evicted, removed, saved, calls>>

\* pool_manager.rs:39-40: the read guard is granted and the key is looked up.
\* A miss leaves the block at once (line 46 drops the guard).
Lookup(t) ==
    /\ pc[t] = "rd_wait"
    /\ waitq # << >> /\ Head(waitq) = t
    /\ waitq' = Tail(waitq)
    /\ IF CacheKey(cid[t], dbarg[t]) \in DOMAIN pools
         THEN /\ readers' = readers \cup {t}
              /\ Goto(t, "check")
              /\ UNCHANGED hc
         ELSE /\ Goto(t, "create")
              /\ hc' = [hc EXCEPT ![t] = "absent"]
              /\ UNCHANGED readers
    /\ UNCHANGED <<registry, pools, alive, nextH, hnd, builds, clients,
                   evicted, removed, saved, calls>>

\* Variant of HealthCheck: the test of line 42 is inverted.
HealthCheck_Inverted(t) ==
    /\ pc[t] = "check"
    /\ readers' = readers \ {t}
    /\ IF ~check_pool_health(pools[CacheKey(cid[t], dbarg[t])])
         THEN /\ hnd' = [hnd EXCEPT ![t] = pools[CacheKey(cid[t], dbarg[t])]]
              /\ hc' = [hc EXCEPT ![t] = "ok"]
              /\ Goto(t, "run")
         ELSE /\ hc' = [hc EXCEPT ![t] = "failed"]
              /\ Goto(t, "create")
              /\ UNCHANGED hnd
    /\ UNCHANGED <<registry, pools, alive, nextH, waitq, builds, clients,
                   evicted, removed, saved, calls>>

\* pool_manager.rs:42-46: the health check returns while the read guard is
\* held; a healthy pool is returned, otherwise the guard is dropped and the
\* call falls through to create_pool.
HealthCheck(t) ==
    /\ pc[t] = "check"
    /\ readers' = readers \ {t}
    /\ IF check_pool_health(pools[CacheKey(cid[t], dbarg[t])])
         THEN /\ hnd' = [hnd EXCEPT ![t] = pools[CacheKey(cid[t], dbarg[t])]]
              /\ hc' = [hc EXCEPT ![t] = "ok"]
              /\ Goto(t, "run")
         ELSE /\ hc' = [hc EXCEPT ![t] = "failed"]
              /\ Goto(t, "create")
              /\ UNCHANGED hnd
    /\ UNCHANGED <<registry, pools, alive, nextH, waitq, builds, clients,
                   evicted, removed, saved, calls>>

\* Variant of CreatePool: a failed connect() is tried once more.
CreatePool_Retry(t) ==
    /\ pc[t] = "create"
    /\ IF snap[t][cid[t]].engine = "mssql"
         THEN /\ Finish(t, "MSSQL pool management not yet implemented")
              /\ UNCHANGED <<nextH, waitq>>
         ELSE \E ok \in BOOLEAN :
              IF ok
                THEN /\ nextH <= MaxHandles
                     /\ hnd' = [hnd EXCEPT ![t] =
                                  [n |-> nextH, kind |-> snap[t][cid[t]].engine,
                                   id |-> cid[t],
                                   ver |-> snap[t][cid[t]].ver,
                                   db |-> ResolvedDb(snap[t][cid[t]], dbarg[t])]]
                     /\ builds' = [builds EXCEPT ![t] = @ + 1]
                     /\ nextH' = nextH + 1
                     /\ waitq' = Append(waitq, t)
                     /\ Goto(t, "wr_wait")
                     /\ UNCHANGED <<clients, hc, evicted, removed, saved>>
                ELSE /\ IF builds[t] = 0
                          THEN /\ Goto(t, "create")
                               /\ builds' = [builds EXCEPT ![t] = @ + 1]
                               /\ UNCHANGED <<hnd, clients, hc, evicted,
                                              removed, saved>>
                          ELSE Finish(t, "Failed to create pool")
                     /\ UNCHANGED <<nextH, waitq>>
    /\ UNCHANGED <<registry, pools, alive, readers, calls>>

\* pool_manager.rs:49, 64-126: one connect() with the loaded config; on
\* success the call asks for the write guard (line 53), on failure `?`
\* returns the error.
CreatePool(t) ==
    /\ pc[t] = "create"
    /\ IF snap[t][cid[t]].engine = "mssql"
         THEN /\ Finish(t, "MSSQL pool management not yet implemented")
              /\ UNCHANGED <<nextH, waitq>>
         ELSE \E ok \in BOOLEAN :
              IF ok
                THEN /\ nextH <= MaxHandles
                     /\ hnd' = [hnd EXCEPT ![t] =
                                  [n |-> nextH, kind |-> snap[t][cid[t]].engine,
                                   id |-> cid[t],
                                   ver |-> snap[t][cid[t]].ver,
                                   db |-> ResolvedDb(snap[t][cid[t]], dbarg[t])]]
                     /\ builds' = [builds EXCEPT ![t] = @ + 1]
                     /\ nextH' = nextH + 1
                     /\ waitq' = Append(waitq, t)
                     /\ Goto(t, "wr_wait")
                     /\ UNCHANGED <<clients, hc, evicted, removed, saved>>
                ELSE /\ Finish(t, "Failed to create pool")
                     /\ UNCHANGED <<nextH, waitq>>
    /\ UNCHANGED <<registry, pools, alive, readers, calls>>

\* Variant of InsertPool: the pool is returned without being cached.
InsertPool_NoInsert(t) ==
    /\ pc[t] = "wr_wait"
    /\ waitq # << >> /\ Head(waitq) = t
    /\ readers = {}
    /\ waitq' = Tail(waitq)
    /\ Goto(t, "run")
    /\ UNCHANGED <<registry, pools, alive, nextH, readers, hnd, builds, clients,
                   hc, evicted, removed, saved, calls>>

\* pool_manager.rs:52-57: the write guard is granted once no guard is held
\* and the task heads the queue; insert, drop the guard, return Ok(pool).
\* The pool that the insert replaces is dropped.
InsertPool(t) ==
    /\ pc[t] = "wr_wait"
    /\ waitq # << >> /\ Head(waitq) = t
    /\ readers = {}
    /\ waitq' = Tail(waitq)
    /\ pools' = Inserted(pools, CacheKey(cid[t], dbarg[t]), hnd[t])
    /\ alive' = Answering(alive, pools') \cup {hnd[t].n}
    /\ Goto(t, "run")
    /\ UNCHANGED <<registry, nextH, readers, hnd, builds, clients, hc,
                   evicted, removed, saved, calls>>

\* Variant of RunQuery: a pool that left the map is closed, and the query
\* on it fails.
RunQuery_Revoked(t) ==
    /\ pc[t] = "run"
    /\ IF hnd[t] \in {pools[k] : k \in DOMAIN pools}
         THEN Finish(t, "ok")
         ELSE Finish(t, "SQL execution failed")
    /\ UNCHANGED <<registry, pools, alive, nextH, readers, waitq, calls>>

\* execute.rs:116-126 and the catalog queries of connections.rs: the command
\* uses the handle it was given and returns.
RunQuery(t) ==
    /\ pc[t] = "run"
    /\ Finish(t, "ok")
    /\ UNCHANGED <<registry, pools, alive, nextH, readers, waitq, calls>>

\* execute.rs:37-64, 420: create_mssql_client opens a client of its own.
MssqlConnect(t) ==
    /\ pc[t] = "mssql_connect"
    /\ \E ok \in BOOLEAN :
         IF ok THEN /\ Goto(t, "mssql_query")
                    /\ clients' = [clients EXCEPT ![t] = @ + 1]
                    /\ UNCHANGED <<hnd, builds, hc, evicted, removed, saved>>
               ELSE Finish(t, "MSSQL connect failed")
    /\ UNCHANGED <<registry, pools, alive, nextH, readers, waitq, calls>>

\* execute.rs:423-471: the statement runs on that client, which is dropped
\* when the function returns.
MssqlQuery(t) ==
    /\ pc[t] = "mssql_query"
    /\ Finish(t, "ok")
    /\ UNCHANGED <<registry, pools, alive, nextH, readers, waitq, calls>>

\* --------------------------------------------------- registry and eviction
\* connections.rs:267-315: load the connections, decode the new config into
\* the loaded copy and call remove_pool (only when a config is supplied).
StartUpdate(t, id, withcfg) ==
    /\ Begin(t)
    /\ IF id \notin DOMAIN registry
         THEN /\ Finish(t, "Connection not found")
              /\ UNCHANGED waitq
         ELSE IF withcfg
         THEN \E filepath \in BOOLEAN :
              IF registry[id].engine = "sqlite" /\ ~filepath
                THEN /\ Finish(t, "Missing filepath")
                     /\ UNCHANGED waitq
                ELSE /\ registry[id].ver < MaxVer
                     /\ \E d \in ConfigDbs :
                          Bind(t, "rm_wait", "update_connection", id, NoDb, TRUE,
                               [registry EXCEPT ![id] =
                                  [engine |-> registry[id].engine,
                                   ver |-> registry[id].ver + 1,
                                   database |->
                                      IF registry[id].engine = "sqlite"
                                        THEN NoDb ELSE d]])
                     /\ waitq' = Append(waitq, t)
         ELSE /\ Bind(t, "save", "update_connection", id, NoDb, FALSE, registry)
              /\ UNCHANGED waitq
    /\ UNCHANGED <<registry, pools, alive, nextH, readers>>

\* connections.rs:341-342: load the connections and drop the one deleted.
StartDelete(t, id) ==
    /\ Begin(t)
    /\ Bind(t, "save", "delete_connection", id, NoDb, FALSE,
            [i \in DOMAIN registry \ {id} |-> registry[i]])
    /\ UNCHANGED <<registry, pools, alive, nextH, readers, waitq>>

\* connections.rs:326-333 (remove_pool) and pool_manager.rs:148-149
\* (clear_all): ask for the write guard.
StartEvict(t, o, id) ==
    /\ o \in EvictOps
    /\ o = "clear_all" <=> id = <<>>
    /\ Begin(t)
    /\ Bind(t, "rm_wait", o, id, NoDb, FALSE, NoSnap)
    /\ waitq' = Append(waitq, t)
    /\ UNCHANGED <<registry, pools, alive, nextH, readers>>

\* pool_manager.rs:142-151: under the write guard, retain the other
\* connections' entries (remove_pool) or clear the map (clear_all); the
\* pools taken out are dropped.
RemovePool(t) ==
    /\ pc[t] = "rm_wait"
    /\ waitq # << >> /\ Head(waitq) = t
    /\ readers = {}
    /\ waitq' = Tail(waitq)
    /\ pools' = IF op[t] = "clear_all" THEN << >> ELSE Retained(pools, cid[t])
    /\ alive' = Answering(alive, pools')
    /\ IF op[t] = "update_connection"
         THEN /\ Goto(t, "save")
              /\ evicted' = [evicted EXCEPT ![t] = TRUE]
              /\ removed' = [removed EXCEPT ![t] =
                    Cardinality(DOMAIN pools) - Cardinality(DOMAIN pools')]
              /\ UNCHANGED <<hnd, builds, clients, hc, saved>>
         ELSE Finish(t, "ok")
    /\ UNCHANGED <<registry, nextH, readers, calls>>

\* connections.rs:104-113, 321, 343: save_connections writes the loaded copy
\* over the file; `?` returns its error.  delete_connection calls
\* remove_pool after the write (line 346).
SaveConnections(t) ==
    /\ pc[t] = "save"
    /\ \E ok \in BOOLEAN :
         IF ok
           THEN /\ registry' = snap[t]
                /\ IF op[t] = "delete_connection"
                     THEN /\ waitq' = Append(waitq, t)
                          /\ Goto(t, "rm_wait")
                          /\ saved' = [saved EXCEPT ![t] = TRUE]
                          /\ UNCHANGED <<hnd, builds, clients, hc, evicted,
                                         removed>>
                     ELSE /\ Finish(t, "ok")
                          /\ UNCHANGED waitq
           ELSE /\ Finish(t, "Failed to write file")
                /\ UNCHANGED <<registry, waitq>>
    /\ UNCHANGED <<pools, alive, nextH, readers, calls>>

\* The engine behind a cached pool stops answering (idle timeout, restart).
Stale(n) ==
    /\ n \in alive
    /\ alive' = alive \ {n}
    /\ UNCHANGED <<registry, pools, nextH, readers, waitq, pc, op, cid, dbarg,
                   newcfg, snap, hnd, builds, clients, hc, evicted, removed,
                   saved, res, calls>>
    /\ UNCHANGED <<xvars, ovars>>

Next ==
    \/ \E t \in Tasks, o \in ReadOps, id \in ConnIds, d \in Databases :
         StartRead(t, o, id, d)
    \/ \E t \in Tasks : Lookup(t)
    \/ \E t \in Tasks : HealthCheck(t)
    \/ \E t \in Tasks : CreatePool(t)
    \/ \E t \in Tasks : InsertPool(t)
    \/ \E t \in Tasks : RunQuery(t)
    \/ \E t \in Tasks : MssqlConnect(t)
    \/ \E t \in Tasks : MssqlQuery(t)
    \/ \E t \in Tasks, id \in Edited, w \in BOOLEAN : StartUpdate(t, id, w)
    \/ \E t \in Tasks, id \in Edited : StartDelete(t, id)
    \/ \E t \in Tasks, o \in EvictOps, id \in ConnIds \cup {<<>>} :
         StartEvict(t, o, id)
    \/ \E t \in Tasks : RemovePool(t)
    \/ \E t \in Tasks : SaveConnections(t)
    \/ \E n \in 1..MaxHandles : Stale(n)

Spec == Init /\ [][Next]_vars

\* ------------------------------------------------ the calls of the cache lock
\* The calls that take a guard of PoolManager.pools: get_or_create_pool (from
\* execute_sql), remove_pool and clear_all.
LockNext ==
    \/ \E t \in Tasks, id \in Edited :
         StartRead(t, "execute_sql", id, NoDb)
    \/ \E t \in Tasks : Lookup(t)
    \/ \E t \in Tasks : HealthCheck(t)
    \/ \E t \in Tasks : CreatePool(t)
    \/ \E t \in Tasks : InsertPool(t)
    \/ \E t \in Tasks : RunQuery(t)
    \/ \E t \in Tasks, o \in EvictOps, id \in Edited \cup {<<>>} :
         StartEvict(t, o, id)
    \/ \E t \in Tasks : RemovePool(t)
    \/ \E n \in 1..MaxHandles : Stale(n)

\* Every engine call returns and the runtime polls every task that can go
\* on; tokio's RwLock grants its guards in the order of the requests.
LockFairness ==
    \A t \in Tasks :
        /\ WF_vars(Lookup(t))
        /\ WF_vars(HealthCheck(t))
        /\ WF_vars(CreatePool(t))
        /\ WF_vars(InsertPool(t))
        /\ WF_vars(RunQuery(t))
        /\ WF_vars(RemovePool(t))

LockSpec == Init /\ [][LockNext]_vars /\ LockFairness

\* =================================================== statement executors
\* execute.rs:200-472.  SQL text is a sequence of tokens; the database holds
\* one table t with one column c.
MaxRows == 2
MaxDecodes == 2

Statements ==
    { <<"SELECT", "c", "FROM", "t">>,
      <<"select", "c", "from", "t", "limit", "1">>,
      <<"SELECT", "c", "FROM", "t", ";">>,
      <<"SELECT", "c", "FROM", "t", ";", "SELECT", "c", ",", "c", "FROM", "t">>,
      <<"INSERT", "INTO", "t">>,
      <<"UPDATE", "t">>,
      <<"DELETE", "FROM", "t">>,
      <<"SELEC", "c">> }

RustTypes == {"String", "i32", "i64", "f64", "bool", "NaiveDateTime", "DateTimeUtc"}
Cells == {c \in SUBSET RustTypes : Cardinality(c) <= MaxDecodes}

\* str::to_uppercase, token by token
UpperToken(k) ==
    CASE k = "select" -> "SELECT"
      [] k = "from" -> "FROM"
      [] k = "limit" -> "LIMIT"
      [] OTHER -> k

to_uppercase(s) == [i \in 1..Len(s) |-> UpperToken(s[i])]

\* str::contains
contains(s, k) == \E i \in 1..Len(s) : s[i] = k

\* str::trim_end_matches(';')
RECURSIVE trim_end_matches(_)
trim_end_matches(s) ==
    IF s # << >> /\ s[Len(s)] = ";"
      THEN trim_end_matches(SubSeq(s, 1, Len(s) - 1))
      ELSE s

\* ------------------------------------------------------------ the database
\* The statements of a request, split at the semicolons.
RECURSIVE Split(_)
Split(s) ==
    IF s = << >> THEN << >>
    ELSE IF ~contains(s, ";") THEN <<s>>
    ELSE LET i == CHOOSE j \in 1..Len(s) :
                     s[j] = ";" /\ \A m \in 1..j - 1 : s[m] # ";"
         IN  (IF i = 1 THEN << >> ELSE <<SubSeq(s, 1, i - 1)>>)
             \o Split(SubSeq(s, i + 1, Len(s)))

Min(a, b) == IF a < b THEN a ELSE b

\* What the database makes of one statement on a table of n rows: whether it
\* is accepted, the names and number of rows of its result set (names empty
\* when the statement produces none), the rows it changes and the rows left.
Statement(st, n) ==
    LET u == to_uppercase(st)
        Rejected == [ok |-> FALSE, names |-> << >>, count |-> 0,
                     changed |-> 0, dml |-> FALSE, table |-> n]
        Select(names, k) == [ok |-> TRUE, names |-> names, count |-> k,
                             changed |-> 0, dml |-> FALSE, table |-> n]
        Change(k, m) == [ok |-> TRUE, names |-> << >>, count |-> 0,
                         changed |-> k, dml |-> TRUE, table |-> m]
        After(k) == SubSeq(u, k, Len(u))
        Rows(k) == IF After(k) = <<"FROM", "t">> THEN n
                   ELSE IF After(k) = <<"FROM", "t", "LIMIT", "0">> THEN 0
                   ELSE IF After(k) = <<"FROM", "t", "LIMIT", "1">> THEN Min(n, 1)
                   ELSE -1
    IN  IF Len(u) >= 4 /\ SubSeq(u, 1, 2) = <<"SELECT", "c">> /\ u[3] = "FROM"
          THEN IF Rows(3) >= 0 THEN Select(<<"c">>, Rows(3)) ELSE Rejected
        ELSE IF Len(u) >= 6 /\ SubSeq(u, 1, 4) = <<"SELECT", "c", ",", "c">>
          THEN IF Rows(5) >= 0 THEN Select(<<"c", "c">>, Rows(5)) ELSE Rejected
        ELSE IF u = <<"INSERT", "INTO", "t">>
          THEN IF n < MaxRows THEN Change(1, n + 1) ELSE Rejected
        ELSE IF u = <<"UPDATE", "t">> THEN Change(n, n)
        ELSE IF u = <<"DELETE", "FROM", "t">> THEN Change(n, 0)
        ELSE Rejected

\* A request of several statements, run in order on a table of n rows: the
\* result sets, the rows changed, the rows left.  A request with a statement
\* the database rejects fails as a whole; MySQL and PostgreSQL take one
\* statement per request.
RECURSIVE Batch(_, _)
Batch(parts, n) ==
    IF parts = << >>
      THEN [ok |-> TRUE, sets |-> << >>, changed |-> 0, dml |-> FALSE, table |-> n]
      ELSE LET h == Statement(Head(parts), n)
               r == Batch(Tail(parts), h.table)
           IN  [ok |-> h.ok /\ r.ok,
                sets |-> (IF h.names # << >>
                            THEN <<[names |-> h.names, count |-> h.count]>>
                            ELSE << >>) \o r.sets,
                changed |-> h.changed + r.changed,
                dml |-> h.dml \/ r.dml,
                table |-> r.table]

Request(engine, text, n) ==
    LET parts == Split(text)
        b == Batch(parts, n)
    IN  IF parts = << >> \/ ~b.ok
             \/ (Len(parts) > 1 /\ engine \in {"mysql", "postgres"})
          THEN [ok |-> FALSE, sets |-> << >>, changed |-> 0, dml |-> FALSE,
                table |-> n]
          ELSE b

\* The rows of the result sets, one after the other; a row carries the names
\* of its columns and its cells.
RECURSIVE RowsOf(_, _)
RowsOf(sets, cell) ==
    IF sets = << >> THEN << >>
    ELSE [i \in 1..Head(sets).count |->
            [names |-> Head(sets).names,
             cells |-> [j \in 1..Len(Head(sets).names) |-> cell]]]
         \o RowsOf(Tail(sets), cell)

\* ------------------------------------------------------- row normalization
\* Row::try_get::<T, _>(i): the index is in the row and the cell decodes as T.
try_get(row, i, T) == i <= Len(row.cells) /\ T \in row.cells[i]

Json(kind, T) == [json |-> kind, from |-> T, n |-> 0]
JsonNull == Json("Null", "none")

\* Variant of row_to_json_values: every cell of the row is converted,
\* whatever the number of columns.
row_to_json_values_RowWidth(row, column_count) ==
    [i \in 1..Len(row.cells) |->
        IF try_get(row, i, "String") THEN Json("String", "String")
        ELSE IF try_get(row, i, "i64") THEN Json("Number", "i64")
        ELSE IF try_get(row, i, "f64") THEN Json("Number", "f64")
        ELSE IF try_get(row, i, "bool") THEN Json("Bool", "bool")
        ELSE IF try_get(row, i, "NaiveDateTime") THEN Json("String", "NaiveDateTime")
        ELSE IF try_get(row, i, "DateTimeUtc") THEN Json("String", "DateTimeUtc")
        ELSE JsonNull]

\* execute.rs:170-198  row_to_json_values!(row, column_count)
row_to_json_values(row, column_count) ==
    [i \in 1..column_count |->
        IF try_get(row, i, "String") THEN Json("String", "String")
        ELSE IF try_get(row, i, "i64") THEN Json("Number", "i64")
        ELSE IF try_get(row, i, "f64") THEN Json("Number", "f64")
        ELSE IF try_get(row, i, "bool") THEN Json("Bool", "bool")
        ELSE IF try_get(row, i, "NaiveDateTime") THEN Json("String", "NaiveDateTime")
        ELSE IF try_get(row, i, "DateTimeUtc") THEN Json("String", "DateTimeUtc")
        ELSE IF try_get(row, i, "String") THEN Json("String", "String")
        ELSE JsonNull]

\* execute.rs:13-34  mssql_value_to_json(row, index)
mssql_value_to_json(row, index) ==
    IF try_get(row, index, "String") THEN Json("String", "String")
    ELSE IF try_get(row, index, "i32") THEN Json("Number", "i32")
    ELSE IF try_get(row, index, "i64") THEN Json("Number", "i64")
    ELSE IF try_get(row, index, "f64") THEN Json("Number", "f64")
    ELSE IF try_get(row, index, "bool") THEN Json("Bool", "bool")
    ELSE IF try_get(row, index, "String") THEN Json("String", "String")
    ELSE JsonNull

\* ---------------------------------------------------------- the executors
Ok(cols, rs) == [ok |-> TRUE, error |-> NoError, columns |-> cols, rows |-> rs]
Err(text, request) ==
    [ok |-> FALSE, error |-> [text |-> text, request |-> request],
     columns |-> << >>, rows |-> << >>]

\* The engine's answer to a request, or the failure of a request that did
\* not reach it.
Answer(up, engine, text, n) ==
    IF up THEN Request(engine, text, n)
    ELSE [ok |-> FALSE, sets |-> << >>, changed |-> 0, dml |-> FALSE, table |-> n]

\* The request is sent and answered with r.
Send(form, text, r) ==
    /\ sent' = Append(sent, [form |-> form, text |-> text, ok |-> r.ok])
    /\ table' = r.table
    /\ changes' = IF r.ok /\ r.dml THEN Append(changes, r.changed) ELSE changes

\* execute.rs:212-216, 283-287, 353-358: the statement of the second fetch
limit_query(engine, text) ==
    LET sql_upper == to_uppercase(text)
        select == sql_upper # << >> /\ sql_upper[1] = "SELECT"
    IN  IF select /\ (engine = "postgres" => ~contains(sql_upper, "LIMIT"))
          THEN trim_end_matches(text) \o <<"LIMIT", "0">>
          ELSE text

\* execute.rs:90-127: execute_sql hands the statement to the executor of the
\* connection's engine.
ExecStart(engine, text) ==
    /\ xpc \in {"idle", "returned"}
    /\ db_type' = engine
    /\ sql' = text
    /\ xpc' = IF engine = "mssql" THEN "mssql" ELSE "query"
    /\ rows' = << >>
    /\ columns' = << >>
    /\ sent' = << >>
    /\ changes' = << >>
    /\ result' = NoResult
    /\ UNCHANGED <<table, coltype>>
    /\ UNCHANGED <<pvars, ovars>>

\* execute.rs:205-252 (276-321, 345-392): sqlx::query(sql).fetch_all(pool);
\* with rows, the names come from the first row and the result is returned.
QueryForm ==
    /\ xpc = "query"
    /\ \E up \in BOOLEAN :
         LET r == Answer(up, db_type, sql, table)
             fetched == RowsOf(r.sets, coltype)
         IN  /\ Send("fetch_all", sql, r)
             /\ IF ~r.ok
                  THEN /\ xpc' = "command"
                       /\ UNCHANGED <<rows, columns, result>>
                  ELSE IF fetched = << >>
                  THEN /\ xpc' = "columns"
                       /\ rows' = fetched
                       /\ UNCHANGED <<columns, result>>
                  ELSE /\ xpc' = "returned"
                       /\ rows' = fetched
                       /\ columns' = fetched[1].names
                       /\ result' = Ok(columns',
                             [i \in 1..Len(fetched) |->
                                row_to_json_values(fetched[i], Len(columns'))])
    /\ UNCHANGED <<coltype, db_type, sql>>
    /\ UNCHANGED <<pvars, ovars>>

\* execute.rs:210-233 (281-302, 350-373): no row was fetched; the names are
\* those of the first row of a second fetch, or none.
ColumnRecovery ==
    /\ xpc = "columns"
    /\ \E up \in BOOLEAN :
         LET r == Answer(up, db_type, limit_query(db_type, sql), table)
             limit_rows == RowsOf(r.sets, coltype)
         IN  /\ Send("fetch_all", limit_query(db_type, sql), r)
             /\ columns' = IF r.ok /\ limit_rows # << >>
                             THEN limit_rows[1].names ELSE << >>
             /\ result' = Ok(columns',
                   [i \in 1..Len(rows) |->
                      row_to_json_values(rows[i], Len(columns'))])
    /\ xpc' = "returned"
    /\ UNCHANGED <<coltype, db_type, sql, rows>>
    /\ UNCHANGED <<pvars, ovars>>

\* Variant of CommandForm: the error kept from the query form is returned.
CommandForm_QueryError ==
    /\ xpc = "command"
    /\ \E up \in BOOLEAN :
         LET r == Answer(up, db_type, sql, table)
         IN  /\ Send("execute", sql, r)
             /\ result' = IF r.ok
                  THEN Ok(<<"affected_rows">>,
                          << <<[json |-> "Number", from |-> "rows_affected",
                                n |-> r.changed]>> >>)
                  ELSE Err("SQL execution failed", 1)
    /\ xpc' = "returned"
    /\ UNCHANGED <<coltype, db_type, sql, rows, columns>>
    /\ UNCHANGED <<pvars, ovars>>

\* execute.rs:254-267 (323-336, 394-407): sqlx::query(sql).execute(pool)
CommandForm ==
    /\ xpc = "command"
    /\ \E up \in BOOLEAN :
         LET r == Answer(up, db_type, sql, table)
         IN  /\ Send("execute", sql, r)
             /\ result' = IF r.ok
                  THEN Ok(<<"affected_rows">>,
                          << <<[json |-> "Number", from |-> "rows_affected",
                                n |-> r.changed]>> >>)
                  ELSE Err("SQL execution failed", Len(sent'))
    /\ xpc' = "returned"
    /\ UNCHANGED <<coltype, db_type, sql, rows, columns>>
    /\ UNCHANGED <<pvars, ovars>>

\* Variant of MssqlForm: a statement without metadata is reported like a
\* command of the other engines.
MssqlForm_AffectedRows ==
    /\ xpc = "mssql"
    /\ \E up \in BOOLEAN :
         LET r == Answer(up, db_type, sql, table)
             streamed == RowsOf(r.sets, coltype)
         IN  /\ Send("query", sql, r)
             /\ rows' = streamed
             /\ columns' = IF r.ok /\ r.sets # << >> THEN r.sets[1].names ELSE << >>
             /\ result' =
                  IF ~r.ok THEN Err("SQL query failed", Len(sent'))
                  ELSE IF columns' = << >>
                  THEN Ok(<<"affected_rows">>,
                          << <<[json |-> "Number", from |-> "rows_affected",
                                n |-> r.changed]>> >>)
                  ELSE Ok(columns',
                          [i \in 1..Len(streamed) |->
                             [j \in 1..Len(columns') |->
                                mssql_value_to_json(streamed[i], j)]])
    /\ xpc' = "returned"
    /\ UNCHANGED <<coltype, db_type, sql>>
    /\ UNCHANGED <<pvars, ovars>>

\* execute.rs:423-471: client.query(sql) and the items of its stream: the
\* names of the first metadata, every row cut to that many values, and the
\* status result when there was no metadata.
MssqlForm ==
    /\ xpc = "mssql"
    /\ \E up \in BOOLEAN :
         LET r == Answer(up, db_type, sql, table)
             streamed == RowsOf(r.sets, coltype)
         IN  /\ Send("query", sql, r)
             /\ rows' = streamed
             /\ columns' = IF r.ok /\ r.sets # << >> THEN r.sets[1].names ELSE << >>
             /\ result' =
                  IF ~r.ok THEN Err("SQL query failed", Len(sent'))
                  ELSE IF columns' = << >>
                  THEN Ok(<<"status">>,
                          << <<[json |-> "String", from |-> "status", n |-> 0]>> >>)
                  ELSE Ok(columns',
                          [i \in 1..Len(streamed) |->
                             [j \in 1..Len(columns') |->
                                mssql_value_to_json(streamed[i], j)]])
    /\ xpc' = "returned"
    /\ UNCHANGED <<coltype, db_type, sql>>
    /\ UNCHANGED <<pvars, ovars>>

\* An empty database and an idle pool manager.
ExecInit ==
    /\ registry = << >>
    /\ pools = << >>
    /\ alive = {}
    /\ nextH = 1
    /\ readers = {}
    /\ waitq = << >>
    /\ pc = [t \in Tasks |-> "idle"]
    /\ op = [t \in Tasks |-> "none"]
    /\ cid = [t \in Tasks |-> <<>>]
    /\ dbarg = [t \in Tasks |-> NoDb]
    /\ newcfg = [t \in Tasks |-> FALSE]
    /\ snap = [t \in Tasks |-> NoSnap]
    /\ hnd = [t \in Tasks |-> NoHandle]
    /\ builds = [t \in Tasks |-> 0]
    /\ clients = [t \in Tasks |-> 0]
    /\ hc = [t \in Tasks |-> "none"]
    /\ evicted = [t \in Tasks |-> FALSE]
    /\ removed = [t \in Tasks |-> 0]
    /\ saved = [t \in Tasks |-> FALSE]
    /\ res = "none"
    /\ calls = 0
    /\ table = 0
    /\ coltype \in Cells
    /\ NoExecutor
    /\ NoOther

ExecNext ==
    \/ \E engine \in Engines, text \in Statements : ExecStart(engine, text)
    \/ QueryForm
    \/ ColumnRecovery
    \/ CommandForm
    \/ MssqlForm

ExecSpec == ExecInit /\ [][ExecNext]_vars

\* ---------------------------------------------- execute_sql and the history
\* Calls of execute_sql that run at the same time, calls in all, and the
\* largest max_history_count of the settings.
MaxWriters == 2
MaxExec == 2
MaxHistory == 2

Writers == 1..MaxWriters

\* The connection_id arguments: the registered connections and an unknown id.
ExecIds == ConnIds \cup {<<"z">>}

\* Option<u64>
None == [some |-> FALSE, v |-> 0]
Some(v) == [some |-> TRUE, v |-> v]

\* Everything but the history and the calls that write it.
hframe == <<pvars, xvars, cvars>>

\* The results an executor returns: no tabular output, a command result, a
\* row result, the MSSQL status result, and an error.
QueryResults ==
    { Ok(<< >>, << >>),
      Ok(<<"affected_rows">>,
         << <<[json |-> "Number", from |-> "rows_affected", n |-> 1]>> >>),
      Ok(<<"c">>, << <<Json("String", "String")>>, <<Json("String", "String")>> >>),
      Ok(<<"status">>, << <<Json("String", "status")>> >>),
      Err("SQL execution failed", 1) }

\* execute.rs:149-167  extract_rows_affected(query_result)
extract_rows_affected(query_result) ==
    IF query_result.rows = << >> THEN None
    ELSE IF Len(query_result.columns) = 1
            /\ query_result.columns[1] = "affected_rows"
    THEN IF Len(query_result.rows[1]) >= 1
            /\ query_result.rows[1][1].json = "Number"
         THEN Some(query_result.rows[1][1].n) ELSE None
    ELSE Some(Len(query_result.rows))

\* execute.rs:130-139: the arguments of add_sql_history for a result
HistoryArgs(id, r) ==
    [connection_id |-> id,
     success |-> r.ok,
     error_message |-> IF r.ok THEN "None" ELSE r.error.text,
     rows_affected |-> IF r.ok THEN extract_rows_affected(r) ELSE None]

\* history.rs:74-81: insert at the beginning and truncate
Truncated(h, n) == SubSeq(h, 1, Min(Len(h), n))

\* No call has returned yet.
NoReturn == [id |-> 0, conn |-> << >>, result |-> NoResult, logged |-> << >>,
             log |-> "none"]

\* execute_sql returns r to its caller; its locals are dropped.
Return(w, r, lg) ==
    /\ hret' = [id |-> hid[w], conn |-> hconn[w], result |-> r,
                logged |-> hargs[w], log |-> lg]
    /\ hpc' = [hpc EXCEPT ![w] = "idle"]
    /\ hid' = [hid EXCEPT ![w] = 0]
    /\ hconn' = [hconn EXCEPT ![w] = << >>]
    /\ hres' = [hres EXCEPT ![w] = NoResult]
    /\ hcopy' = [hcopy EXCEPT ![w] = << >>]

\* execute.rs:81-87: load the connections and find connection_id; `?`
\* returns "Connection not found".  A call is started on the first writer
\* that runs none.
ExecuteSql(w, id) ==
    /\ hpc[w] = "idle"
    /\ \A u \in Writers : u < w => hpc[u] # "idle"
    /\ hcalls < MaxExec
    /\ hcalls' = hcalls + 1
    /\ hargs' = [hargs EXCEPT ![w] = << >>]
    /\ hlog' = [hlog EXCEPT ![w] = "none"]
    /\ IF id \in DOMAIN registry
         THEN /\ hpc' = [hpc EXCEPT ![w] = "acquire"]
              /\ hid' = [hid EXCEPT ![w] = hcalls + 1]
              /\ hconn' = [hconn EXCEPT ![w] = id]
              /\ UNCHANGED <<hres, hcopy, hret>>
         ELSE /\ hret' = [id |-> hcalls + 1, conn |-> id,
                          result |-> Err("Connection not found", 0),
                          logged |-> << >>, log |-> "none"]
              /\ UNCHANGED <<hpc, hid, hconn, hres, hcopy>>
    /\ UNCHANGED <<history, max_history_count, logok>>
    /\ UNCHANGED hframe

\* execute.rs:90, 113: an MSSQL connection goes to its executor; the others
\* ask the pool manager, whose error `?` returns at once.
AcquirePool(w) ==
    /\ hpc[w] = "acquire"
    /\ IF registry[hconn[w]].engine = "mssql"
         THEN /\ hpc' = [hpc EXCEPT ![w] = "execute"]
              /\ UNCHANGED <<hid, hconn, hres, hcopy, hret>>
         ELSE \E ok \in BOOLEAN :
              IF ok
                THEN /\ hpc' = [hpc EXCEPT ![w] = "execute"]
                     /\ UNCHANGED <<hid, hconn, hres, hcopy, hret>>
                ELSE Return(w, Err("Failed to create pool", 0), "none")
    /\ UNCHANGED <<history, max_history_count, hargs, hlog, logok, hcalls>>
    /\ UNCHANGED hframe

\* execute.rs:90-127: the executor of the engine returns `result`.
RunStatement(w) ==
    /\ hpc[w] = "execute"
    /\ \E r \in QueryResults :
         /\ r.columns = <<"status">> => registry[hconn[w]].engine = "mssql"
         /\ r.columns = <<"affected_rows">> => registry[hconn[w]].engine # "mssql"
         /\ hres' = [hres EXCEPT ![w] = r]
    /\ hpc' = [hpc EXCEPT ![w] = "log"]
    /\ UNCHANGED <<history, max_history_count, hid, hconn, hargs, hcopy, hlog,
                   hret, logok, hcalls>>
    /\ UNCHANGED hframe

\* execute.rs:130-141 and history.rs:60-81: add_sql_history is called with
\* the outcome; it loads the history file, inserts its entry at the
\* beginning and truncates the list to max_history_count.
AddSqlHistory(w) ==
    /\ hpc[w] = "log"
    /\ hargs' = [hargs EXCEPT ![w] = Append(@, HistoryArgs(hconn[w], hres[w]))]
    /\ hcopy' = [hcopy EXCEPT ![w] =
          Truncated(<<[id |-> hid[w], item |-> HistoryArgs(hconn[w], hres[w])]>>
                    \o history, max_history_count)]
    /\ hpc' = [hpc EXCEPT ![w] = "save"]
    /\ UNCHANGED <<history, max_history_count, hid, hconn, hres, hlog, hret,
                   logok, hcalls>>
    /\ UNCHANGED hframe

\* Variant of SaveHistory: the error of add_sql_history is returned to the
\* caller of execute_sql.
SaveHistory_Propagate(w) ==
    /\ hpc[w] = "save"
    /\ \E ok \in BOOLEAN :
         IF ok
           THEN /\ history' = hcopy[w]
                /\ hlog' = [hlog EXCEPT ![w] = "ok"]
                /\ logok' = logok \cup {hid[w]}
                /\ Return(w, hres[w], "ok")
           ELSE /\ hlog' = [hlog EXCEPT ![w] = "err"]
                /\ Return(w, Err("Failed to write file", 0), "err")
                /\ UNCHANGED <<history, logok>>
    /\ UNCHANGED <<max_history_count, hargs, hcalls>>
    /\ UNCHANGED hframe

\* history.rs:83-84, 39-48 and execute.rs:141-145: save_history writes the
\* edited list over the file; its error makes add_sql_history return Err,
\* which execute_sql prints; execute_sql returns `result`.
SaveHistory(w) ==
    /\ hpc[w] = "save"
    /\ \E ok \in BOOLEAN :
         IF ok
           THEN /\ history' = hcopy[w]
                /\ hlog' = [hlog EXCEPT ![w] = "ok"]
                /\ logok' = logok \cup {hid[w]}
           ELSE /\ hlog' = [hlog EXCEPT ![w] = "err"]
                /\ UNCHANGED <<history, logok>>
    /\ Return(w, hres[w], hlog'[w])
    /\ UNCHANGED <<max_history_count, hargs, hcalls>>
    /\ UNCHANGED hframe

HistInit ==
    /\ registry = [i \in ConnIds |->
                     [engine |-> IF i = <<"p">> THEN "mysql" ELSE "mssql",
                      ver |-> 0, database |-> NoDb]]
    /\ NoPoolWork
    /\ table = 0
    /\ coltype = {}
    /\ NoExecutor
    /\ NoDecoding
    /\ history = << >>
    /\ max_history_count \in 1..MaxHistory
    /\ hpc = [w \in Writers |-> "idle"]
    /\ hid = [w \in Writers |-> 0]
    /\ hconn = [w \in Writers |-> << >>]
    /\ hres = [w \in Writers |-> NoResult]
    /\ hargs = [w \in Writers |-> << >>]
    /\ hcopy = [w \in Writers |-> << >>]
    /\ hlog = [w \in Writers |-> "none"]
    /\ hret = NoReturn
    /\ logok = {}
    /\ hcalls = 0

HistNext ==
    \/ \E w \in Writers, id \in ExecIds : ExecuteSql(w, id)
    \/ \E w \in Writers : AcquirePool(w)
    \/ \E w \in Writers : RunStatement(w)
    \/ \E w \in Writers : AddSqlHistory(w)
    \/ \E w \in Writers : SaveHistory(w)

HistSpec == HistInit /\ [][HistNext]_vars

\* ------------------------------------------------- decoding a parameter bag
\* Commands run in all, and required fields that a bag may lack.
MaxCommands == 3
MaxMissing == 1

\* u16: ports are stored modulo 2^16
U16 == 65536

DbTypes == Engines \cup {"unsupported_engine"}
RequiredFields == {"filepath", "host", "port", "user", "password"}
OptionalFields == {"database", "ssl"}

\* The files that exist, and the values a bag may give to its fields.
Files == {"f"}
Paths == {"f", "g"}
Ports == {3306, 65535, 65616}

\* The bag that gives the fields F, with the given filepath and port.
BagOf(F, filepath, port) ==
    [f \in F |->
        CASE f = "filepath" -> filepath
          [] f = "host" -> "h"
          [] f = "port" -> port
          [] f = "user" -> "u"
          [] f = "password" -> "pw"
          [] f = "database" -> "a"
          [] f = "ssl" -> TRUE]

Bags ==
    {BagOf(F, filepath, port) :
        F \in {G \in SUBSET (RequiredFields \cup OptionalFields) :
                 Cardinality(RequiredFields \ G) <= MaxMissing},
        filepath \in Paths, port \in Ports}

NoConfig == [engine |-> "none"]
NoProblem == [kind |-> "none", field |-> "none"]
Missing(field) == [kind |-> "Missing", field |-> field]

Decoded(c) == [ok |-> TRUE, error |-> NoProblem, config |-> c]
Refused(e) == [ok |-> FALSE, error |-> e, config |-> NoConfig]

\* config.get(field).and_then(..): None when the bag has no such field
get(b, field) == field \in DOMAIN b

\* connections.rs:153-157: the optional fields of a bag
database_of(b) == IF get(b, "database") THEN <<b["database"]>> ELSE NoDb
ssl_of(b) == IF get(b, "ssl") THEN b["ssl"] ELSE FALSE

NetConfig(engine, host, port, user, password, b) ==
    [engine |-> engine, host |-> host, port |-> port % U16, user |-> user,
     password |-> password, database |-> database_of(b), ssl |-> ssl_of(b)]

\* connections.rs:124-236 (create_connection) and 413-525 (test_connection):
\* the same match on db_type
decode_config(type, b) ==
    IF type = "sqlite"
      THEN IF ~get(b, "filepath") THEN Refused(Missing("filepath"))
           ELSE Decoded([engine |-> "sqlite", filepath |-> b["filepath"]])
    ELSE IF type \in {"mysql", "postgres", "mssql"}
      THEN IF ~get(b, "host") THEN Refused(Missing("host"))
           ELSE IF ~get(b, "port") THEN Refused(Missing("port"))
           ELSE IF ~get(b, "user") THEN Refused(Missing("user"))
           ELSE IF ~get(b, "password") THEN Refused(Missing("password"))
           ELSE Decoded(NetConfig(type, b["host"], b["port"], b["user"],
                                  b["password"], b))
    ELSE Refused([kind |-> "Unsupported", field |-> "none"])

\* connections.rs:285-308: the defaults of update_connection
DefaultPort(type) ==
    CASE type = "mysql" -> 3306
      [] type = "postgres" -> 5432
      [] type = "mssql" -> 1433

DefaultUser(type) ==
    CASE type = "mysql" -> "root"
      [] type = "postgres" -> "postgres"
      [] type = "mssql" -> "sa"

\* connections.rs:275-312 (update_connection): the match on conn.db_type
decode_update(type, b) ==
    IF type = "sqlite"
      THEN IF ~get(b, "filepath") THEN Refused(Missing("filepath"))
           ELSE Decoded([engine |-> "sqlite", filepath |-> b["filepath"]])
    ELSE IF type \in {"mysql", "postgres", "mssql"}
      THEN Decoded(NetConfig(type,
                             IF get(b, "host") THEN b["host"] ELSE "localhost",
                             IF get(b, "port") THEN b["port"] ELSE DefaultPort(type),
                             IF get(b, "user") THEN b["user"] ELSE DefaultUser(type),
                             IF get(b, "password") THEN b["password"] ELSE "",
                             b))
    ELSE Refused([kind |-> "Unsupported", field |-> "none"])

\* connections.rs:238-243: the Connection built from a decoded config
Connection(type, c) ==
    [engine |-> type, ver |-> 0,
     database |-> IF c.engine = "sqlite" THEN NoDb ELSE c.database,
     config |-> c]

\* Everything but the registry, the pool map and the outcome of the command.
cframe == <<readers, waitq, pc, op, cid, dbarg, newcfg, snap, hnd, builds,
            clients, hc, evicted, removed, saved, res, calls, xvars, hvars>>

\* The connect() calls of a command: how many, the database override the
\* command was given, and the database the pool or client was opened
\* against.
NoConnect == [connects |-> 0, override |-> NoDb, opened |-> NoDb]
Connect(database, opened) ==
    [connects |-> 1, override |-> database, opened |-> opened]

NoOutcome == [op |-> "none", type |-> "none", id |-> << >>, ok |-> FALSE,
              error |-> NoProblem, config |-> NoConfig, connects |-> 0,
              override |-> NoDb, opened |-> NoDb]

\* The command o returns d (a decoded config or an error) after the
\* connect() calls n.
Outcome(o, type, id, d, n) ==
    /\ out' = [op |-> o, type |-> type, id |-> id, ok |-> d.ok,
               error |-> d.error, config |-> d.config, connects |-> n.connects,
               override |-> n.override, opened |-> n.opened]
    /\ ccalls < MaxCommands
    /\ ccalls' = ccalls + 1
    /\ UNCHANGED bag
    /\ UNCHANGED cframe

\* connections.rs:122  uuid::Uuid::new_v4(): an id that no connection has
new_v4 == IF <<"p">> \notin DOMAIN registry THEN <<"p">> ELSE <<"q">>

Failure(kind) == Refused([kind |-> kind, field |-> "none"])

\* Variant of create_connection: an unsupported engine kind is registered
\* with an empty config.
create_connection_AnyEngine(type) ==
    LET d == decode_config(type, bag)
    IN  IF ~d.ok /\ d.error.kind # "Unsupported"
          THEN /\ Outcome("create_connection", type, << >>, d, NoConnect)
               /\ UNCHANGED <<registry, pools, alive, nextH>>
          ELSE /\ ConnIds \ DOMAIN registry # {}
               /\ registry' = Inserted(registry, new_v4,
                                       [engine |-> type, ver |-> 0,
                                        database |-> NoDb, config |-> d.config])
               /\ Outcome("create_connection", type, new_v4,
                          Decoded(d.config), NoConnect)
               /\ UNCHANGED <<pools, alive, nextH>>

\* connections.rs:116-250: decode the bag, then load the connections, push
\* the new one under a fresh id and save them.
create_connection(type) ==
    LET d == decode_config(type, bag)
    IN  IF ~d.ok
          THEN /\ Outcome("create_connection", type, << >>, d, NoConnect)
               /\ UNCHANGED <<registry, pools, alive, nextH>>
          ELSE \E written \in BOOLEAN :
                 /\ ConnIds \ DOMAIN registry # {}
                 /\ IF written
                      THEN /\ registry' = Inserted(registry, new_v4,
                                                   Connection(type, d.config))
                           /\ Outcome("create_connection", type, new_v4, d, NoConnect)
                      ELSE /\ Outcome("create_connection", type, << >>,
                                      Failure("Write"), NoConnect)
                           /\ UNCHANGED registry
                 /\ UNCHANGED <<pools, alive, nextH>>

\* connections.rs:408-640 with 351-359: decode the bag; for SQLite the file
\* must exist before connect() is called; the pool is dropped at the end.
test_connection(type) ==
    LET d == decode_config(type, bag)
    IN  /\ IF ~d.ok
             THEN Outcome("test_connection", type, << >>, d, NoConnect)
           ELSE IF type = "sqlite" /\ d.config.filepath \notin Files
             THEN Outcome("test_connection", type, << >>,
                          Failure("FileNotFound"), NoConnect)
           ELSE \E connected \in BOOLEAN :
                  Outcome("test_connection", type, << >>,
                          IF connected THEN d ELSE Failure("Connect"),
                          Connect(NoDb, IF type = "sqlite" THEN NoDb
                                        ELSE d.config.database))
        /\ UNCHANGED <<registry, pools, alive, nextH>>

\* connections.rs:259-323: find the connection, decode the bag by its
\* type, call remove_pool and save the connections.
update_connection(id, with_config) ==
    IF id \notin DOMAIN registry
      THEN /\ Outcome("update_connection", "none", id, Failure("NotFound"), NoConnect)
           /\ UNCHANGED <<registry, pools, alive, nextH>>
    ELSE IF ~with_config
      THEN \E written \in BOOLEAN :
           /\ Outcome("update_connection (name)", registry[id].engine, id,
                      IF written THEN Decoded(registry[id].config)
                      ELSE Failure("Write"), NoConnect)
           /\ UNCHANGED <<registry, pools, alive, nextH>>
    ELSE LET d == decode_update(registry[id].engine, bag)
         IN  IF ~d.ok
               THEN /\ Outcome("update_connection", registry[id].engine, id, d, NoConnect)
                    /\ UNCHANGED <<registry, pools, alive, nextH>>
               ELSE \E written \in BOOLEAN :
                    /\ pools' = Retained(pools, id)
                    /\ alive' = Answering(alive, pools')
                    /\ IF written
                         THEN /\ registry' = [registry EXCEPT ![id] =
                                    Connection(registry[id].engine, d.config)]
                              /\ Outcome("update_connection", registry[id].engine,
                                         id, d, NoConnect)
                         ELSE /\ Outcome("update_connection", registry[id].engine,
                                         id, Failure("Write"), NoConnect)
                              /\ UNCHANGED registry
                    /\ UNCHANGED nextH

\* Variant of get_or_create_pool: the config's database is preferred to
\* the override.
get_or_create_pool_ConfigFirst(id, database) ==
    /\ id \in DOMAIN registry
    /\ registry[id].engine \in PooledEngines
    /\ LET key == CacheKey(id, database)
           c == registry[id].config
           config_first == IF registry[id].engine = "sqlite" THEN NoDb
                           ELSE IF registry[id].database # NoDb
                           THEN registry[id].database ELSE database
       IN  IF key \in DOMAIN pools /\ check_pool_health(pools[key])
             THEN /\ Outcome("get_or_create_pool", registry[id].engine, id,
                             Decoded(c),
                             [connects |-> 0, override |-> database,
                              opened |-> pools[key].db])
                  /\ UNCHANGED <<pools, alive, nextH>>
           ELSE \E connected \in BOOLEAN :
                IF connected /\ (c.engine = "sqlite" => c.filepath \in Files)
                  THEN /\ pools' = Inserted(pools, key,
                                      [n |-> nextH, kind |-> c.engine, id |-> id,
                                       ver |-> 0, db |-> config_first])
                       /\ alive' = Answering(alive, pools') \cup {nextH}
                       /\ nextH' = nextH + 1
                       /\ Outcome("get_or_create_pool", c.engine, id, Decoded(c),
                                  Connect(database, config_first))
                  ELSE /\ Outcome("get_or_create_pool", c.engine, id,
                                  Failure("Connect"),
                                  Connect(database, config_first))
                       /\ UNCHANGED <<pools, alive, nextH>>
    /\ UNCHANGED registry

\* pool_manager.rs:25-126 for a registered connection: a cached pool that
\* answers is returned; otherwise connect() is called with the config's
\* path, or its address and the resolved database; it fails when the SQLite
\* file does not exist; the pool it gives is cached.
get_or_create_pool(id, database) ==
    /\ id \in DOMAIN registry
    /\ registry[id].engine \in PooledEngines
    /\ LET key == CacheKey(id, database)
           c == registry[id].config
       IN  IF key \in DOMAIN pools /\ check_pool_health(pools[key])
             THEN /\ Outcome("get_or_create_pool", registry[id].engine, id,
                             Decoded(c),
                             [connects |-> 0, override |-> database,
                              opened |-> pools[key].db])
                  /\ UNCHANGED <<pools, alive, nextH>>
           ELSE \E connected \in BOOLEAN :
                IF connected /\ (c.engine = "sqlite" => c.filepath \in Files)
                  THEN /\ pools' = Inserted(pools, key,
                                      [n |-> nextH, kind |-> c.engine, id |-> id,
                                       ver |-> 0,
                                       db |-> ResolvedDb(registry[id], database)])
                       /\ alive' = Answering(alive, pools') \cup {nextH}
                       /\ nextH' = nextH + 1
                       /\ Outcome("get_or_create_pool", c.engine, id, Decoded(c),
                                  Connect(database,
                                          ResolvedDb(registry[id], database)))
                  ELSE /\ Outcome("get_or_create_pool", c.engine, id,
                                  Failure("Connect"),
                                  Connect(database,
                                          ResolvedDb(registry[id], database)))
                       /\ UNCHANGED <<pools, alive, nextH>>
    /\ UNCHANGED registry

\* The registry is empty, or holds one connection that an earlier
\* create_connection made from a bag with every field.
ConfInit ==
    /\ \/ registry = << >>
       \/ \E type \in Engines :
            registry = (<<"p">> :> Connection(type,
                          decode_config(type,
                              BagOf(RequiredFields \cup OptionalFields,
                                    "f", DefaultPort("mysql"))).config))
    /\ NoPoolWork
    /\ table = 0
    /\ coltype = {}
    /\ NoExecutor
    /\ NoHistory
    /\ bag \in Bags
    /\ out = NoOutcome
    /\ ccalls = 0

ConfNext ==
    \/ \E type \in DbTypes : create_connection(type)
    \/ \E type \in DbTypes : test_connection(type)
    \/ \E id \in ConnIds, with_config \in BOOLEAN : update_connection(id, with_config)
    \/ \E id \in ConnIds : get_or_create_pool(id, NoDb)

ConfSpec == ConfInit /\ [][ConfNext]_vars

\* ------------------------------------------------- the database opened
\* The database arguments of the commands: none, the config's database and
\* another one.
Overrides == Databases \cup {<<"b">>}

\* execute.rs:90-108, 37-64 and connections.rs:656-669, 744-757, 874-885:
\* a command on an MSSQL connection opens a client of its own, against the
\* override or else the config's database; list_databases, which has no
\* database argument, opens it against no database.
create_mssql_client(o, id, database) ==
    /\ o \in ReadOps
    /\ o = "list_databases" => database = NoDb
    /\ id \in DOMAIN registry
    /\ registry[id].engine = "mssql"
    /\ LET db_name == IF o = "list_databases" THEN NoDb
                      ELSE IF database # NoDb THEN database
                      ELSE registry[id].config.database
       IN  \E connected \in BOOLEAN :
             Outcome(o, "mssql", id,
                     IF connected THEN Decoded(registry[id].config)
                     ELSE Failure("Connect"),
                     Connect(database, db_name))
    /\ UNCHANGED <<registry, pools, alive, nextH>>

\* One registered connection, with or without a database in its config.
OpenInit ==
    /\ \E type \in Engines, F \in {OptionalFields, OptionalFields \ {"database"}} :
         registry = (<<"p">> :> Connection(type,
                       decode_config(type,
                           BagOf(RequiredFields \cup F, "f",
                                 DefaultPort("mysql"))).config))
    /\ NoPoolWork
    /\ table = 0
    /\ coltype = {}
    /\ NoExecutor
    /\ NoHistory
    /\ bag = << >>
    /\ out = NoOutcome
    /\ ccalls = 0

OpenNext ==
    \/ \E id \in ConnIds, database \in Overrides : get_or_create_pool(id, database)
    \/ \E o \in ReadOps, id \in ConnIds, database \in Overrides :
         create_mssql_client(o, id, database)

OpenSpec == OpenInit /\ [][OpenNext]_vars

\* ------------------------------------------------- keys that share a prefix
\* The id arguments of delete_connection, which need not be the id of a
\* connection, and database names, which may hold the separator.
RemoveIds == ConnIds \cup {<<"p", ":", "a">>}
FrameDbs == Databases \cup {<<"a", ":", "b">>}

\* connections.rs:335-349, run alone: load the connections, drop the one
\* with the id, save them and call remove_pool(id).
delete_connection(id) ==
    /\ \E written \in BOOLEAN :
         IF written
           THEN /\ registry' = [i \in DOMAIN registry \ {id} |-> registry[i]]
                /\ pools' = Retained(pools, id)
                /\ alive' = Answering(alive, pools')
                /\ Outcome("delete_connection", "none", id,
                           Decoded(NoConfig), NoConnect)
           ELSE /\ Outcome("delete_connection", "none", id, Failure("Write"),
                           NoConnect)
                /\ UNCHANGED <<registry, pools, alive>>
    /\ UNCHANGED nextH

\* Two registered connections of the pooled engines.
FrameInit ==
    /\ \E type \in {"mysql", "postgres"} :
         registry = [i \in ConnIds |->
                       Connection(type,
                           decode_config(type,
                               BagOf(RequiredFields \cup OptionalFields, "f",
                                     DefaultPort("mysql"))).config)]
    /\ NoPoolWork
    /\ table = 0
    /\ coltype = {}
    /\ NoExecutor
    /\ NoHistory
    /\ bag = << >>
    /\ out = NoOutcome
    /\ ccalls = 0

FrameNext ==
    \/ \E id \in ConnIds, database \in FrameDbs : get_or_create_pool(id, database)
    \/ \E id \in RemoveIds : delete_connection(id)

FrameSpec == FrameInit /\ [][FrameNext]_vars

\* ------------------------------------------------------------------ claims
Key(t) == CacheKey(cid[t], dbarg[t])
Cached == {pools[k] : k \in DOMAIN pools}
InFlight(t) == pc[t] # "idle"

\* C1 (cache hit): when the entry found under the key passes its health
\* check, the call returns that same cached handle, has constructed no pool
\* and leaves the cache map as it was.
C1_CacheHit ==
    [][\A t \in Tasks :
         (pc[t] = "check" /\ pc'[t] # "check" /\ check_pool_health(pools[Key(t)]))
         => /\ pc'[t] = "run"
            /\ hnd'[t] = pools[Key(t)]
            /\ builds'[t] = 0
            /\ pools' = pools]_vars

C1_Witness ==
    \E t \in Tasks :
        /\ pc[t] = "run" /\ hc[t] = "ok" /\ builds[t] = 0
        /\ Key(t) \in DOMAIN pools /\ hnd[t] = pools[Key(t)]

\* C2 (health-check recovery): a call whose lookup found no entry, or an
\* entry that failed its health check, makes exactly one construction; when
\* the construction succeeds the call gets a fresh handle and the cache maps
\* the key to it; the call fails only with the error of the construction.
C2_Recovery ==
    [][\A t \in Tasks :
         /\ (pc[t] = "wr_wait" /\ pc'[t] # "wr_wait")
            => /\ hc[t] \in {"absent", "failed"}
               /\ builds'[t] = 1
               /\ pc'[t] = "run"
               /\ hnd'[t] \notin Cached
               /\ Key(t) \in DOMAIN pools' /\ pools'[Key(t)] = hnd'[t]
         /\ (pc[t] \in {"create", "wr_wait", "run"} /\ pc'[t] = "idle"
             /\ hc[t] \in {"absent", "failed"})
            => /\ builds[t] + (IF pc[t] = "create" THEN 1 ELSE 0) = 1
               /\ res' \in {"ok", "Failed to create pool"}
               /\ res' = "Failed to create pool" <=> pc[t] = "create"]_vars

C2_Witness ==
    \E t \in Tasks :
        /\ pc[t] = "run" /\ hc[t] = "failed" /\ builds[t] = 1
        /\ Key(t) \in DOMAIN pools /\ pools[Key(t)] = hnd[t]

\* C3 (stale eviction), as claimed: when a call whose cached entry failed
\* the health check returns because the rebuild failed, the cache holds no
\* entry for its key.
C3_StaleEvicted ==
    [][\A t \in Tasks :
         (pc[t] = "create" /\ hc[t] = "failed" /\ pc'[t] = "idle")
         => Key(t) \notin DOMAIN pools']_vars

\* C4 (invalidate): when remove_pool(connection_id) returns, the cache holds
\* no pool of that connection, whatever the database of its key.
C4_Invalidate ==
    [][\A t \in Tasks :
         (pc[t] = "rm_wait" /\ pc'[t] # "rm_wait" /\ op[t] # "clear_all")
         => /\ \A h \in {pools'[k] : k \in DOMAIN pools'} : h.id # cid[t]
            /\ \A d \in Databases : CacheKey(cid[t], d) \notin DOMAIN pools']_vars

C4_Witness ==
    \E t \in Tasks :
        /\ pc[t] = "save" /\ op[t] = "update_connection"
        /\ evicted[t] /\ removed[t] >= 2
        /\ \A h \in Cached : h.id # cid[t]

\* C5 (concurrent acquire), as claimed: when every task is inside its first
\* call, all for the same key and starting from the empty cache, at most one
\* of the calls has made a pool construction.
C5_AtMostOneConstruction ==
    (/\ calls = NumTasks
     /\ \A t \in Tasks : op[t] = "query"
     /\ \A t, u \in Tasks : Key(t) = Key(u))
    => Cardinality({t \in Tasks : builds[t] > 0}) <= 1

\* C6 (no stale handle after a config change), as claimed: a cached pool
\* that was built from an older config than the registry holds for its
\* connection, or for a connection that is deleted, exists only while an
\* update_connection or delete_connection of that connection is running.
C6_NoStaleHandle ==
    \A h \in Cached :
        (\/ h.id \notin DOMAIN registry
         \/ h.ver < registry[h.id].ver)
        => \E t \in Tasks :
              /\ InFlight(t)
              /\ op[t] \in {"update_connection", "delete_connection"}
              /\ cid[t] = h.id

\* C7 (invalidate before write), as claimed: in update_connection with a new
\* config and in delete_connection, once save_connections has written the
\* registry, remove_pool has completed.
C7_InvalidateBeforeWrite ==
    \A t \in Tasks :
        (/\ saved[t]
         /\ \/ op[t] = "delete_connection"
            \/ op[t] = "update_connection" /\ newcfg[t])
        => evicted[t]

\* C8 (distinct keys do not block), as claimed: a call that waits to insert
\* its pool is held up only by health checks for its own key.
C8_DistinctKeysDoNotBlock ==
    \A t \in Tasks :
        pc[t] = "wr_wait" => \A u \in readers : Key(u) = Key(t)

\* C9 (MSSQL is never cached): no cached pool is an MSSQL pool or belongs to
\* an MSSQL connection; a command on an MSSQL connection never enters the
\* pool manager and opens one client, which is gone when it returns.
C9_MssqlNotCached ==
    /\ \A h \in Cached :
          /\ h.kind \in PooledEngines
          /\ h.id \in DOMAIN registry => registry[h.id].engine # "mssql"
    /\ \A t \in Tasks :
          (op[t] = "query" /\ snap[t][cid[t]].engine = "mssql")
          => /\ pc[t] \in {"mssql_connect", "mssql_query"}
             /\ clients[t] = (IF pc[t] = "mssql_query" THEN 1 ELSE 0)
             /\ builds[t] = 0 /\ hnd[t] = NoHandle
    /\ \A t \in Tasks : clients[t] <= 1
    /\ \A t \in Tasks : pc[t] \in {"mssql_connect", "mssql_query"}
                          => snap[t][cid[t]].engine = "mssql"

C9_Witness ==
    \E t \in Tasks :
        /\ pc[t] = "mssql_query" /\ clients[t] = 1
        /\ builds[t] = 0 /\ hnd[t] = NoHandle

\* C10 (construction failure): when create_pool fails the call returns the
\* error after exactly one construction attempt and leaves the cache map as
\* it was.
C10_ConstructionFailure ==
    [][\A t \in Tasks :
         /\ builds'[t] <= 1
         /\ (pc[t] = "create" /\ pc'[t] \notin {"create", "wr_wait"})
            => /\ pc'[t] = "idle"
               /\ res' \in {"Failed to create pool",
                            "MSSQL pool management not yet implemented"}
               /\ builds[t] = 0
               /\ pools' = pools]_vars

C10_Witness ==
    res = "Failed to create pool" /\ DOMAIN pools # {}

C12_KeyIsResolvedDatabase ==
    \A t, u \in Tasks :
        LET Acquiring(x) == pc[x] \in {"rd_wait", "check", "create", "wr_wait", "run"}
            Resolved(x) == IF dbarg[x] # NoDb THEN dbarg[x]
                           ELSE snap[x][cid[x]].database
        IN  (Acquiring(t) /\ Acquiring(u) /\ cid[t] = cid[u] /\ snap[t] = snap[u])
            => (Key(t) = Key(u) <=> Resolved(t) = Resolved(u))

\* C13 (two-phase dispatch), as claimed: on every engine a returned call
\* has first sent its SQL in the query form; it has sent the command form
\* only after the query form failed, and then with the same SQL; a failed
\* query form is followed by the command form; and an error returned is the
\* error of the command form.
C13_TwoPhaseDispatch ==
    xpc = "returned" =>
        /\ sent # << >>
        /\ sent[1].form \in {"fetch_all", "query"} /\ sent[1].text = sql
        /\ \A i \in 1..Len(sent) :
              sent[i].form = "execute"
              => i = 2 /\ ~sent[1].ok /\ sent[i].text = sql
        /\ ~sent[1].ok => (Len(sent) = 2 /\ sent[2].form = "execute")
        /\ ~result.ok => sent[result.error.request].form = "execute"

\* C13, amended: the above holds on SQLite, MySQL and PostgreSQL; on MSSQL a
\* call sends its SQL once, with client.query, and an error returned is the
\* error of that one request.
C13_TwoPhaseDispatchPooled ==
    xpc = "returned" =>
        /\ sent # << >> /\ sent[1].text = sql
        /\ db_type \in PooledEngines =>
              /\ sent[1].form = "fetch_all"
              /\ \A i \in 1..Len(sent) :
                    sent[i].form = "execute"
                    => i = 2 /\ ~sent[1].ok /\ sent[i].text = sql
              /\ ~sent[1].ok => (Len(sent) = 2 /\ sent[2].form = "execute")
              /\ ~result.ok <=> (~sent[1].ok /\ ~sent[2].ok)
              /\ ~result.ok => (result.error.request = 2
                                /\ sent[2].form = "execute")
        /\ db_type = "mssql" =>
              /\ Len(sent) = 1 /\ sent[1].form = "query"
              /\ ~result.ok <=> ~sent[1].ok
              /\ ~result.ok => result.error.request = 1

C13_Witness ==
    /\ xpc = "returned" /\ db_type \in PooledEngines
    /\ Len(sent) = 2 /\ sent[2].form = "execute"
    /\ ~result.ok /\ result.error.request = 2

\* C14 (zero-row query shape), as claimed: a call whose statement is a
\* query that matched no row, and whose requests all succeeded, returns the
\* query's non-empty column list and no rows.
C14_ZeroRowQueryShape ==
    (/\ xpc = "returned" /\ result.ok
     /\ \A i \in 1..Len(sent) : sent[i].ok
     /\ rows = << >>
     /\ Request(db_type, sql, table).ok
     /\ Request(db_type, sql, table).sets # << >>)
    => /\ result.columns = Request(db_type, sql, table).sets[1].names
       /\ result.columns # << >>
       /\ result.rows = << >>

\* C15 (mutation count), as claimed: a call on SQLite, MySQL or PostgreSQL
\* whose statement is an INSERT, UPDATE or DELETE, and whose requests all
\* succeeded, returns the single column "affected_rows" and one row whose
\* value is the number of rows that the call changed in the table.
C15_MutationCount ==
    (/\ xpc = "returned" /\ db_type \in PooledEngines
     /\ to_uppercase(sql)[1] \in {"INSERT", "UPDATE", "DELETE"}
     /\ \A i \in 1..Len(sent) : sent[i].ok)
    => /\ result.ok
       /\ result.columns = <<"affected_rows">>
       /\ Len(result.rows) = 1 /\ Len(result.rows[1]) = 1
       /\ changes = <<result.rows[1][1].n>>

\* C16 (no re-issue of a non-query statement), as claimed: once the first
\* attempt of a statement that is not a SELECT has succeeded, the call sends
\* nothing more to the engine, and it changes the table at most once.
C16_NonQueryNotReissued ==
    (/\ sent # << >> /\ sent[1].ok
     /\ to_uppercase(sql)[1] # "SELECT")
    => /\ Len(sent) = 1
       /\ Len(changes) <= 1

\* C17 (no re-issue of a statement that constrains its row count), as
\* claimed: on every engine, no request of a call whose statement contains a
\* LIMIT clause is that statement with a further "LIMIT 0" appended.
C17_LimitNotAppendedTwice ==
    (sent # << >> /\ contains(to_uppercase(sql), "LIMIT"))
    => \A i \in 1..Len(sent) :
          sent[i].text # trim_end_matches(sql) \o <<"LIMIT", "0">>

\* C18 (row width): in every QueryResult returned by an executor (query,
\* command and MSSQL status results alike) every row has as many values as
\* the result has columns.
C18_RowWidth ==
    (xpc = "returned" /\ result.ok)
    => \A i \in 1..Len(result.rows) :
          Len(result.rows[i]) = Len(result.columns)

C18_Witness ==
    /\ xpc = "returned" /\ result.ok
    /\ Len(result.rows) >= 2
    /\ \E i \in 1..Len(rows) : Len(rows[i].cells) # Len(result.columns)

\* C19 (command-result asymmetry): on SQLite, MySQL and PostgreSQL a
\* successful command form returns the one column "affected_rows" and one
\* row holding the count the engine reported; on MSSQL a statement without
\* column metadata returns the one column "status" and one row holding a
\* string, and no MSSQL result has a column "affected_rows".
C19_CommandResultAsymmetry ==
    xpc = "returned" =>
        /\ (/\ db_type \in PooledEngines
            /\ sent[Len(sent)].form = "execute" /\ sent[Len(sent)].ok)
           => /\ result.ok
              /\ result.columns = <<"affected_rows">>
              /\ Len(result.rows) = 1 /\ Len(result.rows[1]) = 1
              /\ result.rows[1][1].json = "Number"
              /\ result.rows[1][1].n =
                    (IF changes # << >> THEN changes[Len(changes)] ELSE 0)
        /\ (db_type = "mssql" /\ result.ok)
           => /\ ~contains(result.columns, "affected_rows")
              /\ columns = << >>
                 => /\ result.columns = <<"status">>
                    /\ Len(result.rows) = 1 /\ Len(result.rows[1]) = 1
                    /\ result.rows[1][1].json = "String"

C19_Witness ==
    /\ xpc = "returned" /\ db_type \in PooledEngines
    /\ result.ok /\ result.columns = <<"affected_rows">>
    /\ result.rows[1][1].n >= 1

\* C20 (row normalization order): on every engine each cell of a returned
\* row is the decoding under the first type that decodes in the order
\* string, 64-bit integer, double, boolean, naive timestamp, UTC timestamp,
\* timestamps rendered as strings, and is null exactly when every attempt
\* fails.  A value decoded as a 32-bit integer is accepted as well when no
\* earlier attempt of the order decodes, so the statement checked is no
\* stronger than the claim.
C20_Order == <<"String", "i64", "f64", "bool", "NaiveDateTime", "DateTimeUtc">>

C20_First(cell) ==
    IF \E k \in 1..Len(C20_Order) : C20_Order[k] \in cell
    THEN C20_Order[CHOOSE k \in 1..Len(C20_Order) :
                      /\ C20_Order[k] \in cell
                      /\ \A m \in 1..(k - 1) : C20_Order[m] \notin cell]
    ELSE "none"

C20_Rendering(T) ==
    CASE T \in {"String", "NaiveDateTime", "DateTimeUtc"} -> "String"
      [] T \in {"i32", "i64", "f64"} -> "Number"
      [] T = "bool" -> "Bool"
      [] OTHER -> "Null"

C20_NormalizationOrder ==
    (/\ xpc = "returned" /\ result.ok
     /\ result.columns \notin {<<"affected_rows">>, <<"status">>})
    => \A i \in 1..Len(result.rows) : \A j \in 1..Len(result.rows[i]) :
          LET v == result.rows[i][j]
          IN  /\ v.json = C20_Rendering(v.from)
              /\ \/ v.from = C20_First(coltype)
                 \/ v.from = "i32" /\ "String" \notin coltype

\* C21 (every execution attempt is logged), as claimed: an execute_sql call
\* for an existing connection that has returned, with success or with a
\* failure (a failure to obtain the pool included), has made exactly one
\* add_sql_history call, which carried the connection id, the success flag
\* and the error text or the row / affected count of what it returned.
C21_EveryAttemptLogged ==
    (hret.id # 0 /\ hret.conn \in DOMAIN registry)
    => /\ Len(hret.logged) = 1
       /\ hret.logged[1] = HistoryArgs(hret.conn, hret.result)

\* C22 (logging failures are swallowed): execute_sql returns to its caller
\* the result of the SQL execution, whether add_sql_history returned Ok or
\* an error.
C22_LogFailureSwallowed ==
    [][\A w \in Writers :
         (hpc[w] = "save" /\ hpc'[w] = "idle")
         => /\ hret'.result = hres[w]
            /\ hret'.log \in {"ok", "err"}
            /\ hret'.log = "err" => history' = history]_vars

C22_Witness ==
    /\ hret.log = "err"
    /\ hret.result.ok /\ hret.result.columns = <<"affected_rows">>
    /\ hret.id \notin logok

\* C29 (no lost history entries), as claimed: starting from the empty
\* history, when every call has returned and the add_sql_history calls that
\* returned Ok are no more than max_history_count, the stored history holds
\* one entry for each of them.
C29_NoLostHistoryEntries ==
    (/\ \A w \in Writers : hpc[w] = "idle"
     /\ Cardinality(logok) <= max_history_count)
    => \A c \in logok :
          Cardinality({i \in 1..Len(history) : history[i].id = c}) = 1

\* The fields a config of an engine kind requires, and the commands that
\* decode a bag into a config.
C23_Required(type) ==
    IF type = "sqlite" THEN {"filepath"}
    ELSE RequiredFields \ {"filepath"}

C23_Decoders == {"create_connection", "test_connection", "update_connection"}

\* C23 (missing required field), as claimed: when create_connection,
\* test_connection or update_connection decodes, for a supported engine
\* kind, a bag that lacks a required field, it returns an error that names
\* a field the bag lacks, and produces no config.
C23_MissingRequiredField ==
    (/\ out.op \in C23_Decoders /\ out.type \in Engines
     /\ C23_Required(out.type) \ DOMAIN bag # {})
    => /\ ~out.ok
       /\ out.error.kind = "Missing"
       /\ out.error.field \in C23_Required(out.type) \ DOMAIN bag
       /\ out.config = NoConfig

\* C24 (unsupported engine): create_connection and test_connection called
\* with an engine kind other than sqlite, mysql, postgres and mssql return
\* the unsupported-engine error, whatever the bag, and leave the registry
\* and the pool cache as they were.
C24_UnsupportedEngine ==
    [][(/\ ccalls' # ccalls
        /\ out'.op \in {"create_connection", "test_connection"}
        /\ out'.type \notin Engines)
       => /\ ~out'.ok
          /\ out'.error.kind = "Unsupported"
          /\ out'.config = NoConfig /\ out'.connects = 0
          /\ registry' = registry
          /\ pools' = pools]_vars

C24_Witness ==
    /\ out.op = "create_connection" /\ out.type = "unsupported_engine"
    /\ out.error.kind = "Unsupported"
    /\ DOMAIN registry # {} /\ DOMAIN pools # {}

\* C25 (a missing file fails fast), as claimed, for the two ways of building
\* a handle: test_connection and get_or_create_pool on an SQLite config
\* whose file does not exist fail with the file-not-found error before any
\* connect() is attempted, and no pool of such a connection is cached.
C25_MissingFileFailsFast ==
    /\ (/\ out.op = "test_connection" /\ out.type = "sqlite"
        /\ get(bag, "filepath") /\ bag["filepath"] \notin Files)
       => /\ ~out.ok /\ out.error.kind = "FileNotFound"
          /\ out.connects = 0
    /\ (/\ out.op = "get_or_create_pool" /\ out.type = "sqlite"
        /\ registry[out.id].config.filepath \notin Files)
       => /\ ~out.ok /\ out.error.kind = "FileNotFound"
          /\ out.connects = 0
    /\ \A k \in DOMAIN pools :
          (pools[k].id \in DOMAIN registry /\ pools[k].kind = "sqlite"
           /\ registry[pools[k].id].engine = "sqlite")
          => registry[pools[k].id].config.filepath \in Files

\* C30 (port range), as claimed: when create_connection, test_connection or
\* update_connection decodes a bag with a numeric port, the config it
\* produces holds the supplied number, and a port above 65535 is rejected.
C30_PortRange ==
    (/\ out.op \in C23_Decoders /\ out.type \in Engines \ {"sqlite"}
     /\ get(bag, "port"))
    => /\ out.ok => out.config.port = bag["port"]
       /\ bag["port"] >= U16 => ~out.ok

\* C26 (database override precedence), as claimed: the database that a
\* pool of a MySQL or PostgreSQL connection, or a client of an MSSQL
\* connection, is opened against is the override when the command was given
\* one, otherwise the config's database, otherwise none.
C26_OverridePrecedence ==
    (/\ out.op \in ReadOps \cup {"get_or_create_pool"} /\ out.ok
     /\ out.type \in {"mysql", "postgres", "mssql"})
    => out.opened = (IF out.override # NoDb THEN out.override
                     ELSE registry[out.id].database)

\* C26, amended: the above holds for the pools built by get_or_create_pool
\* and for the clients of execute_sql, list_tables and describe_table;
\* list_databases on an MSSQL connection opens its client against no
\* database, whatever the config's database.
C26_OverridePrecedenceOfQueries ==
    (/\ out.op \in ReadOps \cup {"get_or_create_pool"} /\ out.ok
     /\ out.type \in {"mysql", "postgres", "mssql"})
    => IF out.op = "list_databases" /\ out.type = "mssql"
         THEN out.opened = NoDb /\ out.override = NoDb
         ELSE out.opened = (IF out.override # NoDb THEN out.override
                            ELSE registry[out.id].database)

C26_Witness ==
    /\ out.op = "get_or_create_pool" /\ out.ok /\ out.connects = 1
    /\ out.type \in {"mysql", "postgres"}
    /\ registry[out.id].database = <<"a">>
    /\ out.override = <<"b">> /\ out.opened = <<"b">>
    /\ pools[CacheKey(out.id, out.override)].db = <<"b">>

\* C27 (invalidate frame), as claimed: the remove_pool(id) of a
\* delete_connection(id) leaves every cache entry that get_or_create_pool
\* inserted for another connection id in the map, unchanged.
C27_InvalidateFrame ==
    [][(ccalls' # ccalls /\ out'.op = "delete_connection")
       => \A k \in DOMAIN pools :
             pools[k].id # out'.id
             => k \in DOMAIN pools' /\ pools'[k] = pools[k]]_vars

\* C28 (no deadlock on the cache lock): when every engine call returns,
\* every get_or_create_pool, remove_pool and clear_all call that was started
\* eventually returns, and a get_or_create_pool call whose construction
\* succeeded goes on with the handle it built.
C28_NoDeadlock ==
    \A t \in Tasks :
        /\ InFlight(t) ~> ~InFlight(t)
        /\ pc[t] = "wr_wait" ~> (pc[t] = "run" /\ hnd[t] # NoHandle)

C28_Witness ==
    \E t, u \in Tasks :
        /\ pc[t] \in {"wr_wait", "rm_wait"} /\ Head(waitq) = t
        /\ u \in readers /\ pc[u] = "check"

====
